---- MODULE Spec2Model ----
(***************************************************************************)
(* Line diff engine (computeDiff, getDiffSummary), chunk grouping and the  *)
(* per-chunk Keep / Reject reconstruction (applyChunkAction) of the TeXai  *)
(* editor, together with the Index component that owns the current and    *)
(* the suggested buffer.                                                   *)
(*                                                                         *)
(* A JavaScript string is a sequence of one-character strings; NL is the   *)
(* line separator.  undefined line numbers are NoNum.                      *)
(*                                                                         *)
(* SpecFn  computeDiff on every pair of texts of at most MaxLines lines,   *)
(*         one loop iteration per step, then applyChunkAction with every   *)
(*         action and chunk id.                                            *)
(* SpecFnFair  one call of computeDiff, from the call to the return, on    *)
(*         texts of at most MaxLines lines over two line values, with the  *)
(*         loop run to completion.                                         *)
(* Spec    Index, LatexEditor and ChatPanel: documents of at most          *)
(*         MaxDocLines lines, at most MaxMessages assistant messages.      *)
(* SpecIx  Index and LatexEditor with any caller of onSuggestion and       *)
(*         onApplyChange, at most MaxMessages suggestions.                 *)
(* SpecSession  one review session: a suggestion arrives, then only Keep   *)
(*         and Reject on the chunks shown.                                 *)
(* SpecWindow  computeDiff on texts longer than the lookahead window.      *)
(* SpecFiles  Index with at most MaxFiles files: tabs, editing and the     *)
(*         debounced auto-save.                                            *)
(***************************************************************************)
EXTENDS Integers, Sequences, FiniteSets, TLC

VARIABLES
  \* one call of computeDiff followed by one call of applyChunkAction
  original, modified,      \* the arguments of computeDiff
  loop,                    \* i, j, oldLineNum, newLineNum, diff of the while loop
  pc,                      \* "idle" | "loop" | "review" | "applied"
  diff, chunks,            \* the returned diff and the editor's chunks
  action, chunkIndex,      \* the arguments of applyChunkAction
  buildContent, buildSuggestion

VARIABLES
  \* the Index component and the chat panel
  latexContent,            \* Index: the current buffer
  suggestedContent,        \* Index: the suggested buffer, or Null
  messages,                \* ChatPanel: the assistant messages
  isLoading,               \* ChatPanel: a request is streaming
  reqLatex,                \* currentLatex as handleSend's closure holds it
  lastOp,                  \* history: the last handler and the buffers it set
  rejectedLines,           \* history: lines of rejected chunks, see ChunkReject
  keptLines,               \* history: lines of kept chunks, see ChunkKeep
  suggestions              \* history: how many suggestions Index has received

VARIABLES
  \* Index: the open files and the auto-save
  openFiles,               \* the tabs, each a path with its modified flag
  currentFilePath,         \* the path of the current tab, or None
  disk,                    \* the content of every file on disk
  timer,                   \* the auto-save timeout is pending
  owner,                   \* history: the path latexContent was loaded from, or None
  lastWrite                \* history: the last write of the auto-save

fnVars == << original, modified, loop, pc, diff, chunks, action, chunkIndex,
             buildContent, buildSuggestion >>

ixVars == << latexContent, suggestedContent, messages, isLoading, reqLatex,
             lastOp, rejectedLines, keptLines, suggestions >>

fileVars == << openFiles, currentFilePath, disk, timer, owner, lastWrite >>

vars == << fnVars, ixVars, fileVars >>

\* ---------------------------------------------------------------- bounds
MaxLines == 3
MaxDocLines == 2
MaxMessages == 1
MaxFiles == 2

\* ------------------------------------------------------------- constants
Window == 10

NL == "\n"
NoNum == 0
\* null or undefined where a string is expected / where a tag is expected
Null == << "null" >>
None == "none"
\* an undefined diff; no reader tells it from an empty one, and computeDiff
\* returns at least one line
NoDiff == << >>

\* the files of the workspace, by path
PathNames == << "f1", "f2", "f3", "f4" >>
Paths == { PathNames[k] : k \in 1..MaxFiles }

\* no file is open: Index as it is constructed
NoFile ==
  /\ openFiles = << >>
  /\ currentFilePath = None
  /\ disk = [p \in Paths |-> << >>]
  /\ timer = FALSE
  /\ owner = None
  /\ lastWrite = [path |-> None, content |-> Null, owner |-> None]

LineAlphabet == { <<>>, <<"a">>, <<"b">> }

Min(a, b) == IF a < b THEN a ELSE b

\* ------------------------------------------------------- string helpers
\* Array.prototype.join('\n')
RECURSIVE JoinLines(_)
JoinLines(ls) ==
  IF Len(ls) = 0 THEN <<>>
  ELSE IF Len(ls) = 1 THEN ls[1]
  ELSE ls[1] \o <<NL>> \o JoinLines(Tail(ls))

\* String.prototype.split('\n'): the separator count decides the number of
\* lines, "" splits into one empty line.
RECURSIVE SplitFrom(_, _, _)
SplitFrom(s, k, cur) ==
  IF k > Len(s) THEN <<cur>>
  ELSE IF s[k] = NL THEN <<cur>> \o SplitFrom(s, k + 1, <<>>)
  ELSE SplitFrom(s, k + 1, Append(cur, s[k]))

\* a split that gives the empty string no lines at all
SplitNoLineForEmpty(s) == IF Len(s) = 0 THEN << >> ELSE SplitFrom(s, 1, <<>>)

Split(s) == SplitFrom(s, 1, <<>>)

\* the final slice left out
SliceDropNothing(s) == s

\* String.prototype.slice(0, -1)
SliceDropLast(s) == IF Len(s) = 0 THEN s ELSE SubSeq(s, 1, Len(s) - 1)

\* Array.prototype.slice(from, from + Window) on a 0-based start
\* a window that takes one line too many
SliceWindowOneMore(ls, from) == SubSeq(ls, from + 1, Min(from + Window + 1, Len(ls)))

SliceWindow(ls, from) == SubSeq(ls, from + 1, Min(from + Window, Len(ls)))

\* Array.prototype.indexOf: 0-based index of the first equal element, -1 if none
RECURSIVE IndexFrom(_, _, _)
IndexFrom(ls, x, k) ==
  IF k > Len(ls) THEN -1
  ELSE IF ls[k] = x THEN k - 1
  ELSE IndexFrom(ls, x, k + 1)

IndexOf(ls, x) == IndexFrom(ls, x, 1)

\* ------------------------------------------------------------ computeDiff
AddedLine(c, n)      == [type |-> "added", content |-> c, oldLineNum |-> NoNum, newLineNum |-> n]
\* numbers the removed line from 0, as the cursor i does
RemovedLineFromZero(c, o) == [type |-> "removed", content |-> c, oldLineNum |-> o - 1, newLineNum |-> NoNum]

RemovedLine(c, o)    == [type |-> "removed", content |-> c, oldLineNum |-> o, newLineNum |-> NoNum]
\* the other spelling the DiffLine type allows for an identical line
UnchangedLineContext(c, o, n) == [type |-> "context", content |-> c, oldLineNum |-> o, newLineNum |-> n]

UnchangedLine(c, o, n) == [type |-> "unchanged", content |-> c, oldLineNum |-> o, newLineNum |-> n]

\* the k-th .. lines ls[from+1 .. from+cnt] pushed as added / removed lines
\* off by one: starts at the matched line's successor
AddedRunShifted(ls, from, cnt, num) ==
  [k \in 1..cnt |-> AddedLine(ls[from + k + 1], num + k - 1)]

\* every line of the run gets the number of its first line
AddedRunOneNumber(ls, from, cnt, num) ==
  [k \in 1..cnt |-> AddedLine(ls[from + k], num)]

AddedRun(ls, from, cnt, num) ==
  [k \in 1..cnt |-> AddedLine(ls[from + k], num + k - 1)]

RemovedRun(ls, from, cnt, num) ==
  [k \in 1..cnt |-> RemovedLine(ls[from + k], num + k - 1)]

\* the loop variables right after `let i = 0, j = 0; let oldLineNum = 1, ...`
CdStart == [i |-> 0, j |-> 0, oldLineNum |-> 1, newLineNum |-> 1, diff |-> <<>>]

\* the loop condition with && for ||
CdRunningBoth(ol, ml, st) == st.i < Len(ol) /\ st.j < Len(ml)

CdRunning(ol, ml, st) == st.i < Len(ol) \/ st.j < Len(ml)

\* on a tie of the two lookaheads the removal wins
CdStepTieRemoves(ol, ml, st) ==
  IF st.i >= Len(ol) THEN
    [st EXCEPT !.diff = Append(@, AddedLine(ml[st.j + 1], st.newLineNum)),
               !.newLineNum = @ + 1, !.j = @ + 1]
  ELSE IF st.j >= Len(ml) THEN
    [st EXCEPT !.diff = Append(@, RemovedLine(ol[st.i + 1], st.oldLineNum)),
               !.oldLineNum = @ + 1, !.i = @ + 1]
  ELSE IF ol[st.i + 1] = ml[st.j + 1] THEN
    [st EXCEPT !.diff = Append(@, UnchangedLine(ol[st.i + 1], st.oldLineNum, st.newLineNum)),
               !.oldLineNum = @ + 1, !.newLineNum = @ + 1,
               !.i = @ + 1, !.j = @ + 1]
  ELSE
    LET foundInMod  == IndexOf(SliceWindow(ml, st.j), ol[st.i + 1])
        foundInOrig == IndexOf(SliceWindow(ol, st.i), ml[st.j + 1])
    IN  IF foundInMod = -1 /\ foundInOrig = -1 THEN
          [st EXCEPT !.diff = @ \o << RemovedLine(ol[st.i + 1], st.oldLineNum),
                                      AddedLine(ml[st.j + 1], st.newLineNum) >>,
                     !.oldLineNum = @ + 1, !.newLineNum = @ + 1,
                     !.i = @ + 1, !.j = @ + 1]
        ELSE IF foundInMod >= 0 /\ (foundInOrig = -1 \/ foundInMod < foundInOrig) THEN
          [st EXCEPT !.diff = @ \o AddedRun(ml, st.j, foundInMod, st.newLineNum),
                     !.newLineNum = @ + foundInMod,
                     !.j = @ + foundInMod]
        ELSE
          [st EXCEPT !.diff = @ \o RemovedRun(ol, st.i, foundInOrig, st.oldLineNum),
                     !.oldLineNum = @ + foundInOrig,
                     !.i = @ + foundInOrig]

\* one iteration of the while loop
CdStep(ol, ml, st) ==
  IF st.i >= Len(ol) THEN
    [st EXCEPT !.diff = Append(@, AddedLine(ml[st.j + 1], st.newLineNum)),
               !.newLineNum = @ + 1, !.j = @ + 1]
  ELSE IF st.j >= Len(ml) THEN
    [st EXCEPT !.diff = Append(@, RemovedLine(ol[st.i + 1], st.oldLineNum)),
               !.oldLineNum = @ + 1, !.i = @ + 1]
  ELSE IF ol[st.i + 1] = ml[st.j + 1] THEN
    [st EXCEPT !.diff = Append(@, UnchangedLine(ol[st.i + 1], st.oldLineNum, st.newLineNum)),
               !.oldLineNum = @ + 1, !.newLineNum = @ + 1,
               !.i = @ + 1, !.j = @ + 1]
  ELSE
    LET foundInMod  == IndexOf(SliceWindow(ml, st.j), ol[st.i + 1])
        foundInOrig == IndexOf(SliceWindow(ol, st.i), ml[st.j + 1])
    IN  IF foundInMod = -1 /\ foundInOrig = -1 THEN
          [st EXCEPT !.diff = @ \o << RemovedLine(ol[st.i + 1], st.oldLineNum),
                                      AddedLine(ml[st.j + 1], st.newLineNum) >>,
                     !.oldLineNum = @ + 1, !.newLineNum = @ + 1,
                     !.i = @ + 1, !.j = @ + 1]
        ELSE IF foundInMod >= 0 /\ (foundInOrig = -1 \/ foundInMod <= foundInOrig) THEN
          [st EXCEPT !.diff = @ \o AddedRun(ml, st.j, foundInMod, st.newLineNum),
                     !.newLineNum = @ + foundInMod,
                     !.j = @ + foundInMod]
        ELSE
          [st EXCEPT !.diff = @ \o RemovedRun(ol, st.i, foundInOrig, st.oldLineNum),
                     !.oldLineNum = @ + foundInOrig,
                     !.i = @ + foundInOrig]

RECURSIVE CdLoop(_, _, _)
CdLoop(ol, ml, st) ==
  IF CdRunning(ol, ml, st) THEN CdLoop(ol, ml, CdStep(ol, ml, st)) ELSE st

computeDiff(a0, b0) ==
  CdLoop(Split(a0), Split(b0), CdStart).diff

\* --------------------------------------------- ChatPanel's own computeDiff
ChatWindow == 10

\* diff.push({ type, content, oldLineNum, newLineNum })
ChatPush(t, c, o, n) == [type |-> t, content |-> c, oldLineNum |-> o, newLineNum |-> n]

\* lines.slice(from, from + 10).indexOf(x)
ChatFound(ls, from, x) ==
  IndexOf(SubSeq(ls, from + 1, Min(from + ChatWindow, Len(ls))), x)

\* on a tie of the two lookaheads the removal wins
ChatCdStepTieRemoves(ol, ml, st) ==
  IF st.i >= Len(ol) THEN
    [st EXCEPT !.diff = Append(@, ChatPush("added", ml[st.j + 1], NoNum, st.newLineNum)),
               !.newLineNum = @ + 1, !.j = @ + 1]
  ELSE IF st.j >= Len(ml) THEN
    [st EXCEPT !.diff = Append(@, ChatPush("removed", ol[st.i + 1], st.oldLineNum, NoNum)),
               !.oldLineNum = @ + 1, !.i = @ + 1]
  ELSE IF ol[st.i + 1] = ml[st.j + 1] THEN
    [st EXCEPT !.diff = Append(@, ChatPush("unchanged", ol[st.i + 1], st.oldLineNum, st.newLineNum)),
               !.oldLineNum = @ + 1, !.newLineNum = @ + 1,
               !.i = @ + 1, !.j = @ + 1]
  ELSE
    LET foundInMod  == ChatFound(ml, st.j, ol[st.i + 1])
        foundInOrig == ChatFound(ol, st.i, ml[st.j + 1])
    IN  IF foundInMod = -1 /\ foundInOrig = -1 THEN
          [st EXCEPT !.diff = @ \o << ChatPush("removed", ol[st.i + 1], st.oldLineNum, NoNum),
                                      ChatPush("added", ml[st.j + 1], NoNum, st.newLineNum) >>,
                     !.oldLineNum = @ + 1, !.newLineNum = @ + 1,
                     !.i = @ + 1, !.j = @ + 1]
        ELSE IF foundInMod >= 0 /\ (foundInOrig = -1 \/ foundInMod < foundInOrig) THEN
          [st EXCEPT !.diff = @ \o [k \in 1..foundInMod |->
                                      ChatPush("added", ml[st.j + k], NoNum, st.newLineNum + k - 1)],
                     !.newLineNum = @ + foundInMod,
                     !.j = @ + foundInMod]
        ELSE
          [st EXCEPT !.diff = @ \o [k \in 1..foundInOrig |->
                                      ChatPush("removed", ol[st.i + k], st.oldLineNum + k - 1, NoNum)],
                     !.oldLineNum = @ + foundInOrig,
                     !.i = @ + foundInOrig]

\* one iteration of the while loop of ChatPanel's copy
ChatCdStep(ol, ml, st) ==
  IF st.i >= Len(ol) THEN
    [st EXCEPT !.diff = Append(@, ChatPush("added", ml[st.j + 1], NoNum, st.newLineNum)),
               !.newLineNum = @ + 1, !.j = @ + 1]
  ELSE IF st.j >= Len(ml) THEN
    [st EXCEPT !.diff = Append(@, ChatPush("removed", ol[st.i + 1], st.oldLineNum, NoNum)),
               !.oldLineNum = @ + 1, !.i = @ + 1]
  ELSE IF ol[st.i + 1] = ml[st.j + 1] THEN
    [st EXCEPT !.diff = Append(@, ChatPush("unchanged", ol[st.i + 1], st.oldLineNum, st.newLineNum)),
               !.oldLineNum = @ + 1, !.newLineNum = @ + 1,
               !.i = @ + 1, !.j = @ + 1]
  ELSE
    LET foundInMod  == ChatFound(ml, st.j, ol[st.i + 1])
        foundInOrig == ChatFound(ol, st.i, ml[st.j + 1])
    IN  IF foundInMod = -1 /\ foundInOrig = -1 THEN
          [st EXCEPT !.diff = @ \o << ChatPush("removed", ol[st.i + 1], st.oldLineNum, NoNum),
                                      ChatPush("added", ml[st.j + 1], NoNum, st.newLineNum) >>,
                     !.oldLineNum = @ + 1, !.newLineNum = @ + 1,
                     !.i = @ + 1, !.j = @ + 1]
        ELSE IF foundInMod >= 0 /\ (foundInOrig = -1 \/ foundInMod <= foundInOrig) THEN
          [st EXCEPT !.diff = @ \o [k \in 1..foundInMod |->
                                      ChatPush("added", ml[st.j + k], NoNum, st.newLineNum + k - 1)],
                     !.newLineNum = @ + foundInMod,
                     !.j = @ + foundInMod]
        ELSE
          [st EXCEPT !.diff = @ \o [k \in 1..foundInOrig |->
                                      ChatPush("removed", ol[st.i + k], st.oldLineNum + k - 1, NoNum)],
                     !.oldLineNum = @ + foundInOrig,
                     !.i = @ + foundInOrig]

RECURSIVE ChatCdLoop(_, _, _)
ChatCdLoop(ol, ml, st) ==
  IF st.i < Len(ol) \/ st.j < Len(ml) THEN ChatCdLoop(ol, ml, ChatCdStep(ol, ml, st)) ELSE st

ChatComputeDiff(a0, b0) == ChatCdLoop(Split(a0), Split(b0), CdStart).diff

\* ---------------------------------------------------------- getDiffSummary
CountType(d, t) == Cardinality({k \in 1..Len(d) : d[k].type = t})

getDiffSummary(d) ==
  [added |-> CountType(d, "added"), removed |-> CountType(d, "removed")]

\* ----------------------------------------------------- cs (useMemo)
\* groups by "has an old side" instead of by "is unchanged"
LineTypeByOldSide(line) == IF line.type \in { "unchanged", "removed" } THEN "unchanged" ELSE "change"

LineType(line) == IF line.type = "unchanged" THEN "unchanged" ELSE "change"

\* d.forEach body from line k on; g holds result, currentLines,
\* currentType and chunkId
RECURSIVE GroupFrom(_, _, _)
GroupFrom(d, k, g) ==
  IF k > Len(d) THEN
    IF Len(g.currentLines) > 0 /\ g.currentType # None
    THEN Append(g.result, [id |-> g.chunkId, type |-> g.currentType, lines |-> g.currentLines])
    ELSE g.result
  ELSE
    LET lineType == LineType(d[k])
        ct == IF g.currentType = None THEN lineType ELSE g.currentType
    IN  IF lineType # ct
        THEN GroupFrom(d, k + 1,
               [result |-> Append(g.result, [id |-> g.chunkId, type |-> ct, lines |-> g.currentLines]),
                currentLines |-> <<d[k]>>,
                currentType |-> lineType,
                chunkId |-> g.chunkId + 1])
        ELSE GroupFrom(d, k + 1,
               [g EXCEPT !.currentLines = Append(@, d[k]), !.currentType = ct])

\* forgets the final push of the lines still being collected
GroupChunksNoFinalPush(d) ==
  SelectSeq(GroupFrom(d, 1, [result |-> <<>>, currentLines |-> <<>>, currentType |-> None, chunkId |-> 0]),
            LAMBDA c : c.lines[Len(c.lines)] # d[Len(d)])

\* starts the id counter at 1
GroupChunksIdsFromOne(d) ==
  GroupFrom(d, 1, [result |-> <<>>, currentLines |-> <<>>, currentType |-> None, chunkId |-> 1])

GroupChunks(d) ==
  GroupFrom(d, 1, [result |-> <<>>, currentLines |-> <<>>, currentType |-> None, chunkId |-> 0])

\* ------------------------------------------------------ applyChunkAction
\* chunk.lines.filter(l => l.type === t)
FilterType(lines, t) == SelectSeq(lines, LAMBDA l : l.type = t)

\* for (const line of lines) build += line.content + "\n"
RECURSIVE AppendLines(_, _)
AppendLines(build, lines) ==
  IF Len(lines) = 0 THEN build
  ELSE AppendLines(build \o lines[1].content \o <<NL>>, Tail(lines))

\* Keep takes the removed lines of the target
ChunkContentLinesKeepRemoved(chunk, act, target) ==
  IF chunk.type = "unchanged" THEN chunk.lines
  ELSE FilterType(chunk.lines, "removed")

\* Reject writes nothing for the target into the current buffer
ChunkContentLinesRejectNothing(chunk, act, target) ==
  IF chunk.type = "unchanged" THEN chunk.lines
  ELSE IF chunk.id = target
       THEN IF act = "keep" THEN FilterType(chunk.lines, "added") ELSE <<>>
       ELSE FilterType(chunk.lines, "removed")

\* the target test comes before the chunk type test
ChunkContentLinesTargetFirst(chunk, act, target) ==
  IF chunk.id = target
  THEN IF act = "keep" THEN FilterType(chunk.lines, "added")
                       ELSE FilterType(chunk.lines, "removed")
  ELSE IF chunk.type = "unchanged" THEN chunk.lines
       ELSE FilterType(chunk.lines, "removed")

\* what one chunk appends to buildContent / buildSuggestion
ChunkContentLines(chunk, act, target) ==
  IF chunk.type = "unchanged" THEN chunk.lines
  ELSE IF chunk.id = target
       THEN IF act = "keep" THEN FilterType(chunk.lines, "added")
                               ELSE FilterType(chunk.lines, "removed")
       ELSE FilterType(chunk.lines, "removed")

\* Reject leaves the added lines of the target in the suggestion
ChunkSuggestionLinesRejectAdded(chunk, act, target) ==
  IF chunk.type = "unchanged" THEN chunk.lines
  ELSE FilterType(chunk.lines, "added")

\* a chunk that is not the target gives the suggestion its removed lines too
ChunkSuggestionLinesAllLines(chunk, act, target) ==
  IF chunk.type = "unchanged" THEN chunk.lines
  ELSE IF chunk.id = target
       THEN IF act = "keep" THEN FilterType(chunk.lines, "added")
                               ELSE FilterType(chunk.lines, "removed")
       ELSE chunk.lines

\* Keep writes the kept lines into the current buffer only
ChunkSuggestionLinesKeepNothing(chunk, act, target) ==
  IF chunk.type = "unchanged" THEN chunk.lines
  ELSE IF chunk.id = target
       THEN IF act = "keep" THEN <<>> ELSE FilterType(chunk.lines, "removed")
       ELSE FilterType(chunk.lines, "added")

ChunkSuggestionLines(chunk, act, target) ==
  IF chunk.type = "unchanged" THEN chunk.lines
  ELSE IF chunk.id = target
       THEN IF act = "keep" THEN FilterType(chunk.lines, "added")
                               ELSE FilterType(chunk.lines, "removed")
       ELSE FilterType(chunk.lines, "added")

\* the for loop over cs, from chunk k on
RECURSIVE BuildFrom(_, _, _, _, _)
BuildFrom(cs, k, act, target, b) ==
  IF k > Len(cs) THEN b
  ELSE BuildFrom(cs, k + 1, act, target,
         [buildContent    |-> AppendLines(b.buildContent, ChunkContentLines(cs[k], act, target)),
          buildSuggestion |-> AppendLines(b.buildSuggestion, ChunkSuggestionLines(cs[k], act, target))])

\* the two strings applyChunkAction holds when it reaches its callbacks
applyChunkAction(act, target, cs) ==
  LET b == BuildFrom(cs, 1, act, target, [buildContent |-> <<>>, buildSuggestion |-> <<>>])
  IN  [buildContent    |-> SliceDropLast(b.buildContent),
       buildSuggestion |-> SliceDropLast(b.buildSuggestion)]

\* ------------------------------------------------------------------------
\* Specification SpecFn: computeDiff run on every pair of bounded texts,
\* iteration by iteration, then applyChunkAction on its chunks.
\* ------------------------------------------------------------------------
RECURSIVE SeqsUpTo(_, _)
SeqsUpTo(S, n) ==
  IF n = 0 THEN { <<>> }
  ELSE LET shorter == SeqsUpTo(S, n - 1)
       IN  shorter \cup { Append(q, x) : q \in shorter, x \in S }

\* the one-line text "Hello"
Hello == << "H", "e", "l", "l", "o" >>

\* every text of 1..MaxLines lines over LineAlphabet, and "Hello"
Texts == { JoinLines(ls) : ls \in SeqsUpTo(LineAlphabet, MaxLines) \ { <<>> } } \cup { Hello }

FnInit ==
  /\ NoFile
  /\ original \in Texts
  /\ modified \in Texts
  /\ loop = CdStart
  /\ pc = "loop"
  /\ diff = <<>>
  /\ chunks = <<>>
  /\ action = None
  /\ chunkIndex = -1
  /\ buildContent = <<>>
  /\ buildSuggestion = <<>>
  /\ latexContent = <<>>
  /\ suggestedContent = Null
  /\ messages = <<>>
  /\ isLoading = FALSE
  /\ reqLatex = Null
  /\ lastOp = [op |-> None]
  /\ rejectedLines = {}
  /\ keptLines = {}
  /\ suggestions = 0

ComputeDiffIterate ==
  /\ pc = "loop"
  /\ CdRunning(Split(original), Split(modified), loop)
  /\ loop' = CdStep(Split(original), Split(modified), loop)
  /\ UNCHANGED << original, modified, pc, diff, chunks, action, chunkIndex,
                  buildContent, buildSuggestion, ixVars, fileVars >>

ComputeDiffReturn ==
  /\ pc = "loop"
  /\ ~ CdRunning(Split(original), Split(modified), loop)
  /\ diff' = loop.diff
  /\ chunks' = GroupChunks(loop.diff)
  /\ pc' = "review"
  /\ UNCHANGED << original, modified, loop, action, chunkIndex,
                  buildContent, buildSuggestion, ixVars, fileVars >>

\* applyChunkAction(a, id, chunks) with any id, also ids the buttons never pass
ApplyChunkAction(a, id) ==
  /\ pc = "review"
  /\ LET b == applyChunkAction(a, id, chunks)
     IN  /\ buildContent' = b.buildContent
         /\ buildSuggestion' = b.buildSuggestion
  /\ action' = a
  /\ chunkIndex' = id
  /\ pc' = "applied"
  /\ UNCHANGED << original, modified, loop, diff, chunks, ixVars, fileVars >>

FnNext ==
  \/ ComputeDiffIterate
  \/ ComputeDiffReturn
  \/ \E a \in {"keep", "reject"}, id \in -1..Len(chunks) : ApplyChunkAction(a, id)

SpecFn == FnInit /\ [][FnNext]_vars

\* computeDiff alone, from its call to its return: it is synchronous code,
\* so once called its loop runs on until it returns
CdInit ==
  /\ NoFile
  /\ original = << >>
  /\ modified = << >>
  /\ loop = CdStart
  /\ pc = "idle"
  /\ diff = <<>>
  /\ chunks = <<>>
  /\ action = None
  /\ chunkIndex = -1
  /\ buildContent = <<>>
  /\ buildSuggestion = <<>>
  /\ latexContent = <<>>
  /\ suggestedContent = Null
  /\ messages = <<>>
  /\ isLoading = FALSE
  /\ reqLatex = Null
  /\ lastOp = [op |-> None]
  /\ rejectedLines = {}
  /\ keptLines = {}
  /\ suggestions = 0

ComputeDiffCall(a0, b0) ==
  /\ pc = "idle"
  /\ original' = a0
  /\ modified' = b0
  /\ loop' = CdStart
  /\ pc' = "loop"
  /\ UNCHANGED << diff, chunks, action, chunkIndex, buildContent, buildSuggestion, ixVars, fileVars >>

\* the texts of 1..MaxLines lines that are each empty or "a": two line values
\* are enough to take every branch of the loop
CallTexts == { JoinLines(ls) : ls \in SeqsUpTo({ << >>, << "a" >> }, MaxLines) \ { <<>> } }

CdNext ==
  \/ \E a0 \in CallTexts, b0 \in CallTexts : ComputeDiffCall(a0, b0)
  \/ ComputeDiffIterate
  \/ ComputeDiffReturn

SpecFnFair ==
  CdInit /\ [][CdNext]_vars /\ WF_vars(ComputeDiffIterate) /\ WF_vars(ComputeDiffReturn)

\* ------------------------------------------------------------------------
\* Readings of a diff and of a chunk list used by the properties
\* ------------------------------------------------------------------------
Contents(lines) == [k \in 1..Len(lines) |-> lines[k].content]

OldSide(d) == Contents(SelectSeq(d, LAMBDA l : l.type \in {"removed", "unchanged"}))
NewSide(d) == Contents(SelectSeq(d, LAMBDA l : l.type \in {"added", "unchanged"}))

HasType(d, t) == \E k \in 1..Len(d) : d[k].type = t

\* C1: the removed and unchanged lines of computeDiff(A, B), joined with \n,
\* give A, and the added and unchanged lines, joined with \n, give B.
C1_Reconstruction ==
  pc # "loop" =>
    /\ JoinLines(OldSide(diff)) = original
    /\ JoinLines(NewSide(diff)) = modified

C1_Witness ==
  /\ pc = "review"
  /\ HasType(diff, "added") /\ HasType(diff, "removed") /\ HasType(diff, "unchanged")
  /\ Len(diff) >= 4

\* ------------------------------------------------------------------------
\* The decided chunk and the lines around it, read off the chunk list
\* ------------------------------------------------------------------------
RECURSIVE Flatten(_)
Flatten(ss) == IF Len(ss) = 0 THEN <<>> ELSE ss[1] \o Flatten(Tail(ss))

AddedOf(c)   == Contents(SelectSeq(c.lines, LAMBDA l : l.type = "added"))
RemovedOf(c) == Contents(SelectSeq(c.lines, LAMBDA l : l.type = "removed"))

\* the target is a Changed chunk of the list
TargetIsChange == 
  /\ chunkIndex \in 0..(Len(chunks) - 1)
  /\ chunks[chunkIndex + 1].type = "change"

Target == chunks[chunkIndex + 1]

\* lines of the chunks from..to as the current buffer / the suggested buffer
\* holds them while they are undecided
CurrentLinesOf(from, to) ==
  Flatten([k \in 1..(to - from + 1) |->
             IF chunks[from + k - 1].type = "unchanged"
             THEN Contents(chunks[from + k - 1].lines)
             ELSE RemovedOf(chunks[from + k - 1])])

SuggestedLinesOf(from, to) ==
  Flatten([k \in 1..(to - from + 1) |->
             IF chunks[from + k - 1].type = "unchanged"
             THEN Contents(chunks[from + k - 1].lines)
             ELSE AddedOf(chunks[from + k - 1])])

PreCurrent    == CurrentLinesOf(1, chunkIndex)
PostCurrent   == CurrentLinesOf(chunkIndex + 2, Len(chunks))
PreSuggested  == SuggestedLinesOf(1, chunkIndex)
PostSuggested == SuggestedLinesOf(chunkIndex + 2, Len(chunks))

\* the lines the decision writes into both buffers
Written == IF action = "keep" THEN AddedOf(Target) ELSE RemovedOf(Target)

Decided(a) == pc = "applied" /\ action = a /\ TargetIsChange

\* the diff recomputed between the two rebuilt buffers
Rediff == computeDiff(buildContent, buildSuggestion)

\* C2: after Keep or Reject of a Changed chunk, the recomputed diff has no
\* added and no removed line in the region of the decided chunk: every line
\* the decision wrote is an unchanged line pairing its position in the new
\* current buffer with its position in the new suggested buffer.
C2_ResolvedRegion ==
  (pc = "applied" /\ TargetIsChange) =>
    \A k \in 1..Len(Written) :
      \E n \in 1..Len(Rediff) :
        /\ Rediff[n].type = "unchanged"
        /\ Rediff[n].oldLineNum = Len(PreCurrent) + k
        /\ Rediff[n].newLineNum = Len(PreSuggested) + k

ChangeChunks(cs) == SelectSeq(cs, LAMBDA c : c.type = "change")

\* C3: after Keep or Reject of one Changed chunk, every other Changed chunk
\* of the pre-decision diff is a Changed chunk of the recomputed diff, with the
\* same removed lines and the same added lines.
C3_PendingUnaffected ==
  (pc = "applied" /\ TargetIsChange) =>
    \A k \in 1..Len(chunks) :
      (chunks[k].type = "change" /\ chunks[k].id # chunkIndex) =>
        \E n \in 1..Len(GroupChunks(Rediff)) :
          /\ GroupChunks(Rediff)[n].type = "change"
          /\ RemovedOf(GroupChunks(Rediff)[n]) = RemovedOf(chunks[k])
          /\ AddedOf(GroupChunks(Rediff)[n]) = AddedOf(chunks[k])

\* C4: Keep writes the added lines of the target chunk, and none of its
\* removed lines, in order, into both rebuilt buffers at the chunk's position.
C4_KeepWritesAdded ==
  Decided("keep") =>
    /\ Len(Split(buildContent)) = Len(PreCurrent) + Len(AddedOf(Target)) + Len(PostCurrent)
    /\ Len(Split(buildSuggestion)) = Len(PreSuggested) + Len(AddedOf(Target)) + Len(PostSuggested)
    /\ SubSeq(Split(buildContent), Len(PreCurrent) + 1,
              Len(PreCurrent) + Len(AddedOf(Target))) = AddedOf(Target)
    /\ SubSeq(Split(buildSuggestion), Len(PreSuggested) + 1,
              Len(PreSuggested) + Len(AddedOf(Target))) = AddedOf(Target)

C4_Witness ==
  /\ Decided("keep")
  /\ Len(AddedOf(Target)) >= 1 /\ Len(RemovedOf(Target)) >= 1
  /\ AddedOf(Target) # RemovedOf(Target)
  /\ chunkIndex >= 1 /\ chunkIndex + 1 < Len(chunks)

\* C5: Reject writes the removed lines of the target chunk, and none of its
\* added lines, in order, into both rebuilt buffers at the chunk's position.
C5_RejectWritesRemoved ==
  Decided("reject") =>
    /\ Len(Split(buildContent)) = Len(PreCurrent) + Len(RemovedOf(Target)) + Len(PostCurrent)
    /\ Len(Split(buildSuggestion)) = Len(PreSuggested) + Len(RemovedOf(Target)) + Len(PostSuggested)
    /\ SubSeq(Split(buildContent), Len(PreCurrent) + 1,
              Len(PreCurrent) + Len(RemovedOf(Target))) = RemovedOf(Target)
    /\ SubSeq(Split(buildSuggestion), Len(PreSuggested) + 1,
              Len(PreSuggested) + Len(RemovedOf(Target))) = RemovedOf(Target)

C5_Witness ==
  /\ Decided("reject")
  /\ Len(AddedOf(Target)) >= 1 /\ Len(RemovedOf(Target)) >= 1
  /\ AddedOf(Target) # RemovedOf(Target)
  /\ chunkIndex >= 1 /\ chunkIndex + 1 < Len(chunks)

\* C6: around the target, an Unchanged chunk gives all its lines to both
\* rebuilt buffers, and a Changed chunk that is not the target gives its
\* removed lines to the current buffer only and its added lines to the
\* suggested buffer only, in chunk order.
C6_OtherChunks ==
  (pc = "applied" /\ TargetIsChange) =>
    /\ SubSeq(Split(buildContent), 1, Len(PreCurrent)) = PreCurrent
    /\ SubSeq(Split(buildContent), Len(PreCurrent) + Len(Written) + 1,
              Len(Split(buildContent))) = PostCurrent
    /\ SubSeq(Split(buildSuggestion), 1, Len(PreSuggested)) = PreSuggested
    /\ SubSeq(Split(buildSuggestion), Len(PreSuggested) + Len(Written) + 1,
              Len(Split(buildSuggestion))) = PostSuggested

C6_Witness ==
  /\ pc = "applied" /\ TargetIsChange
  /\ Len(ChangeChunks(chunks)) >= 2
  /\ \E k \in 1..Len(chunks) :
       /\ chunks[k].type = "change" /\ chunks[k].id # chunkIndex
       /\ Len(AddedOf(chunks[k])) >= 1 /\ Len(RemovedOf(chunks[k])) >= 1

\* C8: when the diff has exactly one Changed chunk, Keep or Reject of it gives
\* buffers whose recomputed diff has getDiffSummary {added: 0, removed: 0}.
\* It is stated for the two rebuilt buffers and for the pair the callbacks
\* leave (Keep passes on buildContent only, Reject buildSuggestion only).
C8_LastChunk ==
  (pc = "applied" /\ TargetIsChange /\ Len(ChangeChunks(chunks)) = 1) =>
    /\ getDiffSummary(Rediff) = [added |-> 0, removed |-> 0]
    /\ getDiffSummary(computeDiff(IF action = "keep" THEN buildContent ELSE original,
                                  IF action = "keep" THEN modified ELSE buildSuggestion))
         = [added |-> 0, removed |-> 0]

C8_Witness ==
  /\ pc = "applied" /\ TargetIsChange /\ Len(ChangeChunks(chunks)) = 1
  /\ Len(chunks) >= 3
  /\ getDiffSummary(diff).added >= 1 /\ getDiffSummary(diff).removed >= 1

\* C10: with a chunk id that matches no chunk or matches an Unchanged chunk,
\* either action rebuilds the current buffer and the suggested buffer as they
\* were.
C10_DefensiveNoOp ==
  (pc = "applied" /\ ~ TargetIsChange) =>
    /\ buildContent = original
    /\ buildSuggestion = modified

C10_Witness ==
  /\ pc = "applied"
  /\ chunkIndex \in 0..(Len(chunks) - 1)
  /\ chunks[chunkIndex + 1].type = "unchanged"
  /\ Len(ChangeChunks(chunks)) >= 1
  /\ original # modified


\* ------------------------------------------------------------------------
\* Specification Spec: the Index component with the editor's per-chunk
\* Keep / Reject buttons and the chat panel's Keep All / Reject All.
\* Every action is a handler followed by the render and the effects it
\* causes, so the auto-clear effect of Index is its last step.
\* ------------------------------------------------------------------------
\* every document of 1..MaxDocLines lines over LineAlphabet
Docs == { JoinLines(ls) : ls \in SeqsUpTo(LineAlphabet, MaxDocLines) \ { <<>> } }

\* String.prototype.trim on texts whose only white space is the newline
RECURSIVE TrimStart(_)
TrimStart(s) == IF Len(s) > 0 /\ s[1] = NL THEN TrimStart(Tail(s)) ELSE s

RECURSIVE TrimEnd(_)
TrimEnd(s) == IF Len(s) > 0 /\ s[Len(s)] = NL THEN TrimEnd(SubSeq(s, 1, Len(s) - 1)) ELSE s

Trim(s) == TrimEnd(TrimStart(s))

\* JavaScript truthiness of string | null
Truthy(s) == s # Null /\ s # <<>>

\* `const diff = suggestedContent ? computeDiff(latexContent, suggestedContent) : undefined`
IndexDiff(content, suggestion) ==
  IF Truthy(suggestion) THEN computeDiff(content, suggestion) ELSE NoDiff

\* the effect tests diff.length === 0 and never clears
AutoClearEmptyOnly(content, suggestion) ==
  IF Truthy(suggestion) /\ Len(IndexDiff(content, suggestion)) = 0
  THEN Null
  ELSE suggestion

\* the effect clears as soon as one of the two counts is zero
AutoClearEitherZero(content, suggestion) ==
  IF Truthy(suggestion) /\ Len(IndexDiff(content, suggestion)) > 0
  THEN LET summary == getDiffSummary(IndexDiff(content, suggestion))
       IN  IF summary.added = 0 \/ summary.removed = 0 THEN Null ELSE suggestion
  ELSE suggestion

\* the auto-clear effect: the value of suggestedContent once the effects of
\* a render with (content, suggestion) have run
AutoClear(content, suggestion) ==
  IF Truthy(suggestion) /\ Len(IndexDiff(content, suggestion)) > 0
  THEN LET summary == getDiffSummary(IndexDiff(content, suggestion))
       IN  IF summary.added = 0 /\ summary.removed = 0 THEN Null ELSE suggestion
  ELSE suggestion

LineSet(s) == { Split(s)[k] : k \in 1..Len(Split(s)) }

Op(name, content, suggestion) == [op |-> name, content |-> content, suggestion |-> suggestion]

\* A handler of Index sets the two buffers; the render that follows runs the
\* auto-clear effect.  lastOp records who called and the buffers as the
\* handler set them.
SetBuffers(content, suggestion, by) ==
  /\ latexContent' = content
  /\ suggestedContent' = AutoClear(content, suggestion)
  /\ lastOp' = Op(by, content, suggestion)

handleApplyChange(newContent, by)   == SetBuffers(newContent, Null, by)
handleSuggestion(newContent, by)    == SetBuffers(latexContent, newContent, by)
handleDiffChange(newSuggestion, by) == SetBuffers(latexContent, newSuggestion, by)
handleContentChange(newContent, by) == SetBuffers(newContent, suggestedContent, by)

chatVars == << messages, isLoading, reqLatex >>

Init ==
  /\ NoFile
  /\ latexContent \in Docs
  /\ suggestedContent = Null
  /\ messages = <<>>
  /\ isLoading = FALSE
  /\ reqLatex = Null
  /\ lastOp = Op(None, Null, Null)
  /\ rejectedLines = {}
  /\ keptLines = {}
  /\ suggestions = 0
  /\ original = <<>>
  /\ modified = <<>>
  /\ loop = CdStart
  /\ pc = "idle"
  /\ diff = <<>>
  /\ chunks = <<>>
  /\ action = None
  /\ chunkIndex = -1
  /\ buildContent = <<>>
  /\ buildSuggestion = <<>>

\* ------------------------------------------------------------ LatexEditor
\* textarea onChange; the textarea is rendered only while no diff is shown
TextareaChange(newContent) ==
  /\ ~ (Len(IndexDiff(latexContent, suggestedContent)) > 0)
  /\ handleContentChange(newContent, "edit")
  /\ rejectedLines' = {}
  /\ keptLines' = {}
  /\ UNCHANGED << chatVars, suggestions, fnVars, fileVars >>

\* the chunk list the editor renders
EditorChunks == GroupChunks(IndexDiff(latexContent, suggestedContent))

ChangeChunkShown(id) ==
  /\ Len(IndexDiff(latexContent, suggestedContent)) > 0
  /\ \E k \in 1..Len(EditorChunks) :
       EditorChunks[k].id = id /\ EditorChunks[k].type = "change"

\* the contents of the lines of type t of a chunk
LinesOfType(c, t) ==
  { c.lines[k].content : k \in { n \in 1..Len(c.lines) : c.lines[n].type = t } }

\* Keep button of chunk id: applyChunkAction('keep', id, chunks) -> onChange
\* keptLines collects the lines the kept chunks added to the current buffer.
ChunkKeep(id) ==
  /\ ChangeChunkShown(id)
  /\ handleContentChange(applyChunkAction("keep", id, EditorChunks).buildContent, "keep")
  /\ keptLines' = keptLines \cup LinesOfType(EditorChunks[id + 1], "added")
  /\ UNCHANGED << chatVars, rejectedLines, suggestions, fnVars, fileVars >>

\* Reject button of chunk id: applyChunkAction('reject', id, chunks) -> onDiffChange
\* rejectedLines collects the lines the rejected chunks proposed to add and
\* that neither buffer holds once the chunk is rejected.
ChunkReject(id) ==
  /\ ChangeChunkShown(id)
  /\ LET newSuggestion == applyChunkAction("reject", id, EditorChunks).buildSuggestion
     IN  /\ handleDiffChange(newSuggestion, "reject")
         /\ rejectedLines' = (rejectedLines \cup LinesOfType(EditorChunks[id + 1], "added"))
                               \ (LineSet(latexContent) \cup LineSet(newSuggestion))
  /\ UNCHANGED << chatVars, keptLines, suggestions, fnVars, fileVars >>

\* -------------------------------------------------------------- ChatPanel
\* handleSend up to its first await: the closure keeps currentLatex
HandleSendStart ==
  /\ ~ isLoading
  /\ Len(messages) < MaxMessages
  /\ isLoading' = TRUE
  /\ reqLatex' = latexContent
  /\ UNCHANGED << latexContent, suggestedContent, lastOp, messages,
                  rejectedLines, keptLines, suggestions, fnVars, fileVars >>

\* handleSend after the stream has ended; raw is the code block of the answer
\* (empty when the answer has none)
HandleSendFinish(raw) ==
  /\ isLoading
  /\ LET improvedLatex == Trim(raw)
         suggests == improvedLatex # <<>> /\ improvedLatex # reqLatex
         d == IF suggests THEN ChatComputeDiff(reqLatex, improvedLatex) ELSE <<>>
     IN  /\ messages' = Append(messages,
                          [modifiedLatex |-> IF Len(d) > 0 THEN improvedLatex ELSE Null,
                           diff          |-> IF Len(d) > 0 THEN d ELSE NoDiff,
                           status        |-> IF Len(d) > 0 THEN "pending" ELSE None])
         /\ IF suggests
            THEN /\ handleSuggestion(improvedLatex, "suggest")
                 /\ rejectedLines' = {}
                 /\ keptLines' = {}
                 /\ suggestions' = suggestions + 1
            ELSE UNCHANGED << latexContent, suggestedContent, lastOp, rejectedLines,
                              keptLines, suggestions >>
  /\ isLoading' = FALSE
  /\ reqLatex' = Null
  /\ UNCHANGED << fnVars, fileVars >>

\* Keep All of message m: handleKeep -> onApplyChange(modifiedLatex)
HandleKeep(m) ==
  /\ m \in 1..Len(messages)
  /\ messages[m].status = "pending"
  /\ handleApplyChange(messages[m].modifiedLatex, "keepAll")
  /\ messages' = [messages EXCEPT ![m].status = "accepted"]
  /\ UNCHANGED << isLoading, reqLatex, rejectedLines, keptLines, suggestions, fnVars, fileVars >>

\* Reject All of message m: handleReject -> onSuggestion(null)
HandleReject(m) ==
  /\ m \in 1..Len(messages)
  /\ messages[m].status = "pending"
  /\ handleSuggestion(Null, "rejectAll")
  /\ messages' = [messages EXCEPT ![m].status = "rejected"]
  /\ UNCHANGED << isLoading, reqLatex, rejectedLines, keptLines, suggestions, fnVars, fileVars >>

\* the most chunks a diff of two documents can have
MaxChunkId == 2 * MaxDocLines

Next ==
  \/ \E t \in Docs : TextareaChange(t)
  \/ \E id \in 0..MaxChunkId : ChunkKeep(id)
  \/ \E id \in 0..MaxChunkId : ChunkReject(id)
  \/ HandleSendStart
  \/ \E raw \in Docs : HandleSendFinish(raw)
  \/ \E m \in 1..MaxMessages : HandleKeep(m)
  \/ \E m \in 1..MaxMessages : HandleReject(m)

Spec == Init /\ [][Next]_vars

\* ------------------------------------------------------------------------
\* Specification SpecIx: Index and the editor alone.  The chat panel is any
\* caller of the two props Index hands it: onSuggestion with null or a
\* trimmed, non-empty text, onApplyChange with such a text.  It makes at
\* most MaxMessages suggestions.
\* ------------------------------------------------------------------------
Improved == { Trim(raw) : raw \in Docs } \ { <<>> }

OnSuggestion(newContent) ==
  /\ suggestions < MaxMessages
  /\ handleSuggestion(newContent, "suggest")
  /\ suggestions' = suggestions + 1
  /\ rejectedLines' = {}
  /\ keptLines' = {}
  /\ UNCHANGED << chatVars, fnVars, fileVars >>

OnSuggestionNull ==
  /\ handleSuggestion(Null, "rejectAll")
  /\ UNCHANGED << chatVars, rejectedLines, keptLines, suggestions, fnVars, fileVars >>

OnApplyChange(newContent) ==
  /\ handleApplyChange(newContent, "keepAll")
  /\ UNCHANGED << chatVars, rejectedLines, keptLines, suggestions, fnVars, fileVars >>

IxNext ==
  \/ \E t \in Docs : TextareaChange(t)
  \/ \E id \in 0..MaxChunkId : ChunkKeep(id)
  \/ \E id \in 0..MaxChunkId : ChunkReject(id)
  \/ \E t \in Improved : OnSuggestion(t)
  \/ OnSuggestionNull
  \/ \E t \in Improved : OnApplyChange(t)

SpecIx == Init /\ [][IxNext]_vars

\* C7: a per-chunk decision is final: no later operation of the session
\* brings a line that a rejected chunk proposed (and that neither buffer held
\* after the rejection) into the current buffer, or takes a line that a kept
\* chunk added out of the current buffer.
C7_DecisionFinal ==
  /\ \A l \in rejectedLines : l \notin LineSet(latexContent)
  /\ \A l \in keptLines : l \in LineSet(latexContent)

ZeroSummary(d) == getDiffSummary(d).added = 0 /\ getDiffSummary(d).removed = 0

Line(t, c, o, n) == [type |-> t, content |-> c, oldLineNum |-> o, newLineNum |-> n]

Returned == pc # "loop" /\ pc # "idle"

\* C11: after Reject of a Changed chunk the rebuilt current buffer is the
\* pre-decision current buffer, its lines at the chunk's position are the
\* chunk's removed lines, and the suggested buffer is the one that changed.
C11_RejectRestoresOriginal ==
  Decided("reject") =>
    /\ buildContent = original
    /\ SubSeq(Split(original), Len(PreCurrent) + 1,
              Len(PreCurrent) + Len(RemovedOf(Target))) = RemovedOf(Target)
    /\ buildSuggestion # modified

C11_Witness ==
  /\ Decided("reject")
  /\ Len(RemovedOf(Target)) >= 1 /\ Len(AddedOf(Target)) >= 1
  /\ Len(ChangeChunks(chunks)) >= 2
  /\ buildContent = original

\* C12: computeDiff(A, A) has exactly one unchanged line per line of A, in
\* order, each with oldLineNum equal to newLineNum.
C12_Identity ==
  (Returned /\ original = modified) =>
    /\ Len(diff) = Len(Split(original))
    /\ \A k \in 1..Len(diff) : diff[k] = Line("unchanged", Split(original)[k], k, k)

C12_Witness ==
  /\ pc = "review"
  /\ original = modified
  /\ Len(diff) >= 3
  /\ diff[1].content # diff[2].content

\* C13 as the spec states it: computeDiff("", "Hello") is the one-line diff
\* [added "Hello"].
C13_EmptyToHello ==
  (Returned /\ original = << >> /\ modified = Hello) =>
    diff = << Line("added", Hello, NoNum, 1) >>

\* C13 as the code has it: the empty original is one empty line, which does
\* not match "Hello", so computeDiff("", "Hello") is the two-line diff
\* [removed "" (old line 1), added "Hello" (new line 1)].
C13_EmptyToHelloReplaces ==
  (Returned /\ original = << >> /\ modified = Hello) =>
    diff = << Line("removed", << >>, 1, NoNum), Line("added", Hello, NoNum, 1) >>

C13_Witness ==
  /\ pc = "review"
  /\ original = << >>
  /\ modified = Hello
  /\ Len(diff) = 2

\* C14: computeDiff("", "") is exactly one line, unchanged, with empty
\* content.
C14_EmptyToEmpty ==
  (Returned /\ original = << >> /\ modified = << >>) =>
    /\ Len(diff) = 1
    /\ diff[1].type = "unchanged"
    /\ diff[1].content = << >>

C14_Witness ==
  /\ pc = "review"
  /\ original = << >>
  /\ modified = << >>
  /\ Len(diff) = 1
  /\ Len(chunks) = 1

HasOld(l) == l.oldLineNum # NoNum
HasNew(l) == l.newLineNum # NoNum

\* C15: a line carries oldLineNum exactly when it is removed or unchanged,
\* and then its content is that line of the original; it carries newLineNum
\* exactly when it is added or unchanged, and then its content is that line
\* of the modified text; each numbering runs 1, 2, 3, ... in diff order.
C15_LineNumbers ==
  Returned =>
    LET ol == Split(original)
        ml == Split(modified)
        olds == SelectSeq(diff, HasOld)
        news == SelectSeq(diff, HasNew)
    IN  /\ \A k \in 1..Len(diff) :
             /\ HasOld(diff[k]) <=> diff[k].type \in { "removed", "unchanged" }
             /\ HasNew(diff[k]) <=> diff[k].type \in { "added", "unchanged" }
             /\ HasOld(diff[k]) =>
                  /\ diff[k].oldLineNum \in 1..Len(ol)
                  /\ ol[diff[k].oldLineNum] = diff[k].content
             /\ HasNew(diff[k]) =>
                  /\ diff[k].newLineNum \in 1..Len(ml)
                  /\ ml[diff[k].newLineNum] = diff[k].content
        /\ \A k \in 1..Len(olds) : olds[k].oldLineNum = k
        /\ \A k \in 1..Len(news) : news[k].newLineNum = k

C15_Witness ==
  /\ pc = "review"
  /\ Len(diff) >= 4
  /\ \A t \in { "added", "removed", "unchanged" } : \E k \in 1..Len(diff) : diff[k].type = t
  /\ \E k \in 1..Len(diff) : diff[k].type = "unchanged" /\ diff[k].oldLineNum # diff[k].newLineNum

\* C16: the chunks' lines, concatenated in id order, are the diff list.
C16_ChunkPartition ==
  Returned => Flatten([k \in 1..Len(chunks) |-> chunks[k].lines]) = diff

C16_Witness ==
  /\ pc = "review"
  /\ Len(chunks) >= 3
  /\ Len(diff) > Len(chunks)

C18_ChunkIds ==
  /\ GroupChunks(NoDiff) = << >>
  /\ Returned => \A k \in 1..Len(chunks) : chunks[k].id = k - 1

C18_Witness ==
  /\ pc = "review"
  /\ Len(chunks) >= 3
  /\ chunks[1].type = "change"
  /\ chunks[3].id = 2

\* C19: computeDiff returns on every pair of texts, every iteration of its
\* loop moves at least one cursor forward and none backward, no cursor
\* passes its line count, and at the return both cursors are at their line
\* counts.
C19_Terminates ==
  /\ (pc = "loop") ~> (pc = "review")
  /\ [][loop' # loop =>
          /\ loop'.i >= loop.i
          /\ loop'.j >= loop.j
          /\ loop'.i + loop'.j > loop.i + loop.j]_vars
  /\ [](/\ loop.i <= Len(Split(original))
        /\ loop.j <= Len(Split(modified))
        /\ pc = "review" => /\ loop.i = Len(Split(original))
                            /\ loop.j = Len(Split(modified)))

C19_Witness ==
  /\ pc = "review"
  /\ Len(diff) >= 4
  /\ loop.i = Len(Split(original))
  /\ loop.j = Len(Split(modified))
  /\ loop.i # loop.j

\* the two texts have no line in common
Disjoint ==
  \A p \in 1..Len(Split(original)), q \in 1..Len(Split(modified)) :
    Split(original)[p] # Split(modified)[q]

\* C20 as the spec states it: for texts with no common line the diff is all
\* lines of the original as removed, then all lines of the modified text as
\* added.
C20_DisjointRemovedThenAdded ==
  (Returned /\ Disjoint) =>
    LET n == Len(Split(original))
        m == Len(Split(modified))
    IN  /\ Len(diff) = n + m
        /\ \A k \in 1..n : diff[k] = Line("removed", Split(original)[k], k, NoNum)
        /\ \A k \in 1..m : diff[n + k] = Line("added", Split(modified)[k], NoNum, k)

\* C20 as the code has it: for texts with no common line the diff pairs the
\* lines by position, line k of the original removed and right after it
\* line k of the modified text added, and then lists what is left of the
\* longer text, removed or added.
C20_DisjointPairedByPosition ==
  (Returned /\ Disjoint) =>
    LET ol == Split(original)
        ml == Split(modified)
        c  == Min(Len(ol), Len(ml))
    IN  /\ Len(diff) = Len(ol) + Len(ml)
        /\ \A k \in 1..c :
             /\ diff[2 * k - 1] = Line("removed", ol[k], k, NoNum)
             /\ diff[2 * k] = Line("added", ml[k], NoNum, k)
        /\ \A k \in (c + 1)..Len(ol) : diff[c + k] = Line("removed", ol[k], k, NoNum)
        /\ \A k \in (c + 1)..Len(ml) : diff[c + k] = Line("added", ml[k], NoNum, k)

C20_Witness ==
  /\ pc = "review"
  /\ Disjoint
  /\ Len(Split(original)) >= 2
  /\ Len(Split(modified)) >= 2
  /\ Len(Split(original)) # Len(Split(modified))
  /\ diff[2].type = "added"
  /\ diff[3].type = "removed"

\* ------------------------------------------------------------------------
\* Specification SpecFiles: Index with files.  The workspace has MaxFiles
\* files; the user opens files from the tree, selects and closes tabs and
\* types into the editor, and the debounced auto-save writes.
\* ------------------------------------------------------------------------
\* defaultLatex, the text of the editor while no file is open
DefaultLatex == << "d" >>

\* what a file holds on disk at the start, and what the user types
FileTexts == { << "a" >>, << "b" >> }

OpenPaths == { openFiles[k].path : k \in 1..Len(openFiles) }

\* openFiles.map(f => f.path === path ? { ...f, modified: flag } : f)
SetModified(files, path, flag) ==
  [k \in 1..Len(files) |->
     IF files[k].path = path THEN [files[k] EXCEPT !.modified = flag] ELSE files[k]]

\* openFiles.filter(f => f.path !== path)
WithoutPath(files, path) == SelectSeq(files, LAMBDA f : f.path # path)

\* the auto-save effect, run after a render in which latexContent or
\* currentFilePath has changed: the old timeout is cleared and, when a file
\* is current, a new one is set
ArmTimer(newPath, newContent) ==
  timer' = IF newPath = currentFilePath /\ newContent = latexContent
           THEN timer
           ELSE newPath # None

FilesInit ==
  /\ openFiles = << >>
  /\ currentFilePath = None
  /\ disk \in [Paths -> FileTexts \cup { << >> }]
  /\ timer = FALSE
  /\ owner = None
  /\ lastWrite = [path |-> None, content |-> Null, owner |-> None]
  /\ latexContent = DefaultLatex
  /\ suggestedContent = Null
  /\ messages = <<>>
  /\ isLoading = FALSE
  /\ reqLatex = Null
  /\ lastOp = Op(None, Null, Null)
  /\ rejectedLines = {}
  /\ keptLines = {}
  /\ suggestions = 0
  /\ original = <<>>
  /\ modified = <<>>
  /\ loop = CdStart
  /\ pc = "idle"
  /\ diff = <<>>
  /\ chunks = <<>>
  /\ action = None
  /\ chunkIndex = -1
  /\ buildContent = <<>>
  /\ buildSuggestion = <<>>

\* typing into the editor: handleContentChange, markCurrentFileModified
FileEdit(newContent) ==
  /\ ~ (Len(IndexDiff(latexContent, suggestedContent)) > 0)
  /\ handleContentChange(newContent, "edit")
  /\ openFiles' = SetModified(openFiles, currentFilePath, TRUE)
  /\ ArmTimer(currentFilePath, newContent)
  /\ UNCHANGED << currentFilePath, disk, owner, lastWrite, chatVars, rejectedLines,
                  keptLines, suggestions, fnVars >>

\* handleFileSelect(filePath) for a file that has a tab: only the current
\* path is set
SelectOpenFile(filePath) ==
  /\ filePath \in OpenPaths
  /\ currentFilePath' = filePath
  /\ ArmTimer(filePath, latexContent)
  /\ UNCHANGED << openFiles, disk, owner, lastWrite, ixVars, fnVars >>

\* handleFileSelect(filePath) for a file that has no tab: it is read from
\* disk; an empty content is refused
LoadFile(filePath) ==
  /\ filePath \notin OpenPaths
  /\ disk[filePath] # << >>
  /\ openFiles' = Append(openFiles, [path |-> filePath, modified |-> FALSE])
  /\ currentFilePath' = filePath
  /\ SetBuffers(disk[filePath], Null, "load")
  /\ owner' = filePath
  /\ ArmTimer(filePath, disk[filePath])
  /\ UNCHANGED << disk, lastWrite, chatVars, rejectedLines, keptLines, suggestions, fnVars >>

\* handleFileClose(filePath); a modified file is closed once the user has
\* confirmed.  Closing the current tab selects the first remaining tab
\* through handleFileSelect, which still sees that tab in openFiles.
handleFileClose(filePath) ==
  /\ filePath \in OpenPaths
  /\ openFiles' = WithoutPath(openFiles, filePath)
  /\ IF currentFilePath # filePath
     THEN UNCHANGED << currentFilePath, timer, owner, ixVars >>
     ELSE IF Len(WithoutPath(openFiles, filePath)) > 0
     THEN /\ currentFilePath' = WithoutPath(openFiles, filePath)[1].path
          /\ ArmTimer(WithoutPath(openFiles, filePath)[1].path, latexContent)
          /\ UNCHANGED << owner, ixVars >>
     ELSE /\ currentFilePath' = None
          /\ SetBuffers(DefaultLatex, Null, "close")
          /\ owner' = None
          /\ ArmTimer(None, DefaultLatex)
          /\ UNCHANGED << chatVars, rejectedLines, keptLines, suggestions >>
  /\ UNCHANGED << disk, lastWrite, fnVars >>

\* the timeout fires: saveCurrentFile writes latexContent to currentFilePath
saveCurrentFile ==
  /\ timer
  /\ currentFilePath # None
  /\ disk' = [disk EXCEPT ![currentFilePath] = latexContent]
  /\ openFiles' = SetModified(openFiles, currentFilePath, FALSE)
  /\ timer' = FALSE
  /\ lastWrite' = [path |-> currentFilePath, content |-> latexContent, owner |-> owner]
  /\ UNCHANGED << currentFilePath, owner, ixVars, fnVars >>

FilesNext ==
  \/ \E t \in FileTexts : FileEdit(t)
  \/ \E f \in Paths : SelectOpenFile(f)
  \/ \E f \in Paths : LoadFile(f)
  \/ \E f \in Paths : handleFileClose(f)
  \/ saveCurrentFile

SpecFiles == FilesInit /\ [][FilesNext]_vars

\* ------------------------------------------------------------------------
\* Specification SpecSession: one review session.  A suggestion arrives for
\* a document of at most MaxLines lines (CallTexts), and from then on the user only
\* presses Keep or Reject on Changed chunks of the diff the editor shows.
\* original and modified keep the two buffers as they were when the
\* suggestion arrived, action the kind of decisions taken so far.
\* ------------------------------------------------------------------------
SessionInit ==
  /\ NoFile
  /\ latexContent \in CallTexts
  /\ suggestedContent = Null
  /\ messages = <<>>
  /\ isLoading = FALSE
  /\ reqLatex = Null
  /\ lastOp = Op(None, Null, Null)
  /\ rejectedLines = {}
  /\ keptLines = {}
  /\ suggestions = 0
  /\ original = <<>>
  /\ modified = <<>>
  /\ loop = CdStart
  /\ pc = "idle"
  /\ diff = <<>>
  /\ chunks = <<>>
  /\ action = None
  /\ chunkIndex = -1
  /\ buildContent = <<>>
  /\ buildSuggestion = <<>>

\* the texts handleSend can pass to onSuggestion
ImprovedTexts == { Trim(raw) : raw \in CallTexts } \ { <<>> }

\* handleSend -> onSuggestion(improvedLatex), improvedLatex !== currentLatex
SuggestionArrives(newContent) ==
  /\ suggestions = 0
  /\ newContent # latexContent
  /\ handleSuggestion(newContent, "suggest")
  /\ suggestions' = 1
  /\ original' = latexContent
  /\ modified' = newContent
  /\ pc' = "review"
  /\ UNCHANGED << chatVars, rejectedLines, keptLines, loop, diff, chunks, action,
                  chunkIndex, buildContent, buildSuggestion, fileVars >>

\* the decisions of the session so far: all of kind a, or mixed
Decisions(a) == IF action \in { None, a } THEN a ELSE "mixed"

SessionKeep(id) ==
  /\ ChangeChunkShown(id)
  /\ LET b == applyChunkAction("keep", id, EditorChunks)
     IN  /\ handleContentChange(b.buildContent, "keep")
         /\ buildContent' = b.buildContent
         /\ buildSuggestion' = b.buildSuggestion
  /\ action' = Decisions("keep")
  /\ chunkIndex' = id
  /\ diff' = IndexDiff(latexContent, suggestedContent)
  /\ UNCHANGED << chatVars, rejectedLines, keptLines, suggestions, original, modified,
                  loop, pc, chunks, fileVars >>

SessionReject(id) ==
  /\ ChangeChunkShown(id)
  /\ LET b == applyChunkAction("reject", id, EditorChunks)
     IN  /\ handleDiffChange(b.buildSuggestion, "reject")
         /\ buildContent' = b.buildContent
         /\ buildSuggestion' = b.buildSuggestion
  /\ action' = Decisions("reject")
  /\ chunkIndex' = id
  /\ diff' = IndexDiff(latexContent, suggestedContent)
  /\ UNCHANGED << chatVars, rejectedLines, keptLines, suggestions, original, modified,
                  loop, pc, chunks, fileVars >>

\* the most chunks a diff of two texts can have
MaxSessionChunkId == 2 * MaxLines

SessionDecision ==
  \/ \E id \in 0..MaxSessionChunkId : SessionKeep(id)
  \/ \E id \in 0..MaxSessionChunkId : SessionReject(id)

SessionNext ==
  \/ \E t \in ImprovedTexts : SuggestionArrives(t)
  \/ SessionDecision

SpecSession == SessionInit /\ [][SessionNext]_vars

\* ------------------------------------------------------------------------
\* Properties of the rebuilt buffers and of review sessions
\* ------------------------------------------------------------------------
\* the lines applyChunkAction accumulated for each buffer
AccumulatedContent ==
  Contents(Flatten([k \in 1..Len(chunks) |-> ChunkContentLines(chunks[k], action, chunkIndex)]))

AccumulatedSuggestion ==
  Contents(Flatten([k \in 1..Len(chunks) |-> ChunkSuggestionLines(chunks[k], action, chunkIndex)]))

\* C21: each buffer applyChunkAction builds is its accumulated lines joined
\* with \n: splitting it gives back exactly those lines, so the final slice
\* took away a separator and never a content character.
C21_JoinedNoTrailingSeparator ==
  pc = "applied" =>
    /\ buildContent = JoinLines(AccumulatedContent)
    /\ buildSuggestion = JoinLines(AccumulatedSuggestion)
    /\ Split(buildContent) = AccumulatedContent
    /\ Split(buildSuggestion) = AccumulatedSuggestion

C21_Witness ==
  /\ Decided("keep")
  /\ Len(AccumulatedContent) >= 2
  /\ AccumulatedContent[Len(AccumulatedContent)] = << >>
  /\ AccumulatedSuggestion[Len(AccumulatedSuggestion)] # << >>
  /\ buildContent # buildSuggestion

\* C22: while a suggestion is pending, every diff the user interface holds
\* for it is computeDiff(current buffer, suggested buffer) for the present
\* buffers: the editor's chunk list is grouped from it, and the diff stored
\* in a pending chat message (and so its added / removed badge) equals it.
C22_DiffsDerived ==
  Truthy(suggestedContent) =>
    /\ EditorChunks = GroupChunks(computeDiff(latexContent, suggestedContent))
    /\ \A m \in 1..Len(messages) :
         messages[m].status = "pending" =>
           /\ messages[m].diff = computeDiff(latexContent, suggestedContent)
           /\ getDiffSummary(messages[m].diff)
                = getDiffSummary(computeDiff(latexContent, suggestedContent))

\* a Changed chunk is shown that the user can decide
DecisionPossible == \E id \in 0..MaxSessionChunkId : ChangeChunkShown(id)

\* the session is over with the two buffers collapsed to one: the
\* suggestion is cleared, or what is left of it no longer differs from the
\* current buffer
Collapsed ==
  /\ ~ Truthy(suggestedContent)
  /\ suggestedContent # Null => ZeroSummary(computeDiff(latexContent, suggestedContent))

\* C23: a review session in which the user keeps deciding Changed chunks
\* ends collapsed: once a suggestion has arrived, either a Changed chunk is
\* still there to decide or the recomputed diff has no added and no removed
\* line and the comparison is closed.
C23_SessionCloses ==
  suggestions = 1 => (DecisionPossible \/ Collapsed)

\* added plus removed lines of a diff
Changes(d) == getDiffSummary(d).added + getDiffSummary(d).removed

\* the diff between the two buffers as the last decision's handler set them
Recomputed == computeDiff(lastOp.content, lastOp.suggestion)

\* C24: every Keep or Reject of a Changed chunk leaves a recomputed diff
\* with strictly fewer added plus removed lines than the diff it was taken
\* on.
C24_Progress ==
  lastOp.op \in { "keep", "reject" } => Changes(Recomputed) < Changes(diff)

\* C25: the suggested buffer a Keep rebuilds is the pre-decision suggested
\* buffer, so handing only the rebuilt current buffer to the owner leaves
\* the same pair of buffers as handing over both.
C25_KeepLeavesSuggestion ==
  Decided("keep") => buildSuggestion = modified

C25_Witness ==
  /\ Decided("keep")
  /\ Len(ChangeChunks(chunks)) >= 2
  /\ Len(AddedOf(Target)) >= 1 /\ Len(RemovedOf(Target)) >= 1
  /\ buildContent # original
  /\ buildSuggestion = modified

\* the comparison was opened by a suggestion and the auto-clear effect has
\* closed it
AutoClosed == suggestions = 1 /\ action # None /\ suggestedContent = Null

\* C26: when a session of Keep decisions only auto-closes, the current
\* buffer is the suggestion as it arrived; when a session of Reject
\* decisions only auto-closes, the current buffer is the current buffer as
\* it was when the suggestion arrived.
C26_AgreesWithWholeReview ==
  AutoClosed =>
    /\ action = "keep" => latexContent = modified
    /\ action = "reject" => latexContent = original

C26_Witness ==
  /\ AutoClosed
  /\ action = "keep"
  /\ Len(ChangeChunks(GroupChunks(computeDiff(original, modified)))) >= 2
  /\ latexContent = modified
  /\ original # modified

\* ------------------------------------------------------------------------
\* Specification SpecWindow: computeDiff on texts long enough for the
\* lookahead window to end before the text does.  A text is at most MaxPad
\* lines "a" or "b", then Window-2 or Window-1 lines "c", then at most
\* MaxPad lines "a" or "b"; the spec's example pair is added.
\* ------------------------------------------------------------------------
MaxPad == 1

Fill(n) == [k \in 1..n |-> << "c" >>]

ExampleABC == << "A", NL, "B", NL, "C" >>
ExampleAXC == << "A", NL, "X", NL, "C" >>

WindowTexts ==
  { JoinLines(pre \o Fill(n) \o post) :
      pre \in SeqsUpTo({ << "a" >>, << "b" >> }, MaxPad),
      post \in SeqsUpTo({ << "a" >>, << "b" >> }, MaxPad),
      n \in { Window - 2, Window - 1 } }
  \cup { ExampleABC, ExampleAXC }

WindowInit ==
  /\ NoFile
  /\ original \in WindowTexts
  /\ modified \in WindowTexts
  /\ loop = CdStart
  /\ pc = "loop"
  /\ diff = <<>>
  /\ chunks = <<>>
  /\ action = None
  /\ chunkIndex = -1
  /\ buildContent = <<>>
  /\ buildSuggestion = <<>>
  /\ latexContent = <<>>
  /\ suggestedContent = Null
  /\ messages = <<>>
  /\ isLoading = FALSE
  /\ reqLatex = Null
  /\ lastOp = [op |-> None]
  /\ rejectedLines = {}
  /\ keptLines = {}
  /\ suggestions = 0

WindowNext ==
  \/ ComputeDiffIterate
  \/ ComputeDiffReturn

SpecWindow == WindowInit /\ [][WindowNext]_vars

\* ------------------------------------------------------------------------
\* Properties of the single iterations of computeDiff's loop
\* ------------------------------------------------------------------------
\* the iteration about to run compares two different lines
Mismatch ==
  /\ pc = "loop"
  /\ loop.i < Len(Split(original))
  /\ loop.j < Len(Split(modified))
  /\ Split(original)[loop.i + 1] # Split(modified)[loop.j + 1]

\* offsets of original[i] in modified[j..] and of modified[j] in
\* original[i..], -1 when there is none
OffsetInMod  == IndexOf(SubSeq(Split(modified), loop.j + 1, Len(Split(modified))),
                        Split(original)[loop.i + 1])
OffsetInOrig == IndexOf(SubSeq(Split(original), loop.i + 1, Len(Split(original))),
                        Split(modified)[loop.j + 1])

InWindow(k) == k >= 0 /\ k < 10

InsertCase ==
  /\ Mismatch
  /\ InWindow(OffsetInMod)
  /\ (~ InWindow(OffsetInOrig) \/ OffsetInMod <= OffsetInOrig)

\* C27: on a mismatch where original[i] is found at offset foundInMod in
\* the window of modified and modified[j] is not found in the window of
\* original or foundInMod <= foundInOrig, the iteration emits exactly the
\* lines modified[j .. j+foundInMod) as added and leaves i alone, and the
\* next iteration emits one unchanged line for original[i].
C27_InsertionTieBreak ==
  [][InsertCase =>
       LET ol == Split(original)
           ml == Split(modified)
           n  == Len(loop.diff)
           nxt == CdStep(ol, ml, loop')
       IN  /\ loop'.i = loop.i
           /\ loop'.j = loop.j + OffsetInMod
           /\ Len(loop'.diff) = n + OffsetInMod
           /\ SubSeq(loop'.diff, 1, n) = loop.diff
           /\ \A k \in 1..OffsetInMod :
                loop'.diff[n + k] = Line("added", ml[loop.j + k], NoNum, loop.newLineNum + k - 1)
           /\ nxt.diff = Append(loop'.diff,
                                Line("unchanged", ol[loop.i + 1], loop.oldLineNum,
                                     loop.newLineNum + OffsetInMod))
           /\ nxt.i = loop.i + 1]_vars

\* a tie was broken for the insertion: the line added before the unchanged
\* line is the line removed after it
C27_Witness ==
  /\ pc = "review"
  /\ \E k \in 1..(Len(diff) - 2) :
       /\ diff[k].type = "added"
       /\ diff[k + 1].type = "unchanged"
       /\ diff[k + 2].type = "removed"
       /\ diff[k + 2].content = diff[k].content
       /\ k > 1 => diff[k - 1].type # "added"

\* a line equal to original[i] lies ahead in modified, but outside the window
FarInMod == OffsetInMod >= 10

ReplaceCase == Mismatch /\ ~ InWindow(OffsetInMod) /\ ~ InWindow(OffsetInOrig)

\* C28: on a mismatch a line equal to original[i] or modified[j] that lies
\* 10 or more lines ahead counts as not found; when neither line is found
\* within its window the iteration emits original[i] as removed, then
\* modified[j] as added, and advances both cursors by one.  "A\nB\nC"
\* against "A\nX\nC" gives unchanged A, removed B, added X, unchanged C.
C28_BoundedLookahead ==
  /\ [][ReplaceCase =>
          /\ loop'.diff = loop.diff \o
               << Line("removed", Split(original)[loop.i + 1], loop.oldLineNum, NoNum),
                  Line("added", Split(modified)[loop.j + 1], NoNum, loop.newLineNum) >>
          /\ loop'.i = loop.i + 1
          /\ loop'.j = loop.j + 1]_vars
  /\ [][(Mismatch /\ FarInMod /\ InWindow(OffsetInOrig)) =>
          /\ loop'.j = loop.j
          /\ loop'.i = loop.i + OffsetInOrig]_vars
  /\ []((pc = "review" /\ original = ExampleABC /\ modified = ExampleAXC) =>
          diff = << Line("unchanged", << "A" >>, 1, 1),
                    Line("removed", << "B" >>, 2, NoNum),
                    Line("added", << "X" >>, NoNum, 2),
                    Line("unchanged", << "C" >>, 3, 3) >>)

\* the first iteration replaced line 1 although the first line of the
\* original occurs in the modified text, 10 or more lines further on
C28_Witness ==
  /\ pc = "review"
  /\ IndexOf(Split(modified), Split(original)[1]) >= 10
  /\ IndexOf(Split(original), Split(modified)[1]) = -1
  /\ diff[1] = Line("removed", Split(original)[1], 1, NoNum)
  /\ diff[2] = Line("added", Split(modified)[1], NoNum, 1)

\* C29: whatever the auto-save writes to a path is the text that was
\* loaded from that path (and edited since): the text of one file is never
\* written to the path of another.
C29_SaveOwnContent ==
  lastWrite.path # None => lastWrite.owner = lastWrite.path

\* C30: ChatPanel's private computeDiff returns the line list the shared
\* computeDiff returns: the same types, contents and line numbers in the
\* same order.
C30_SameDiffEngine ==
  Returned => ChatComputeDiff(original, modified) = diff

C30_Witness ==
  /\ pc = "review"
  /\ Len(diff) >= 5
  /\ HasType(diff, "added") /\ HasType(diff, "removed") /\ HasType(diff, "unchanged")
  /\ ChatComputeDiff(original, modified) = diff

====
